---- MODULE Spec2Model ----
(***************************************************************************)
(* A model of backend/fetch_sales.py: the extract-aggregate-publish run.   *)
(*                                                                         *)
(*   main              get_access_token -> fetch_sales_mtd_range ->        *)
(*                     filter -> load_mapping -> process_group (x3) ->     *)
(*                     export_json -> push_to_github                       *)
(*   process_group     the aggregation, as a pure function of a frame and  *)
(*                     a reference table                                   *)
(*                                                                         *)
(* Three specifications share the definitions:                             *)
(*   Spec      one run of main, page by page and git command by command,   *)
(*             in a repository whose data.json is committed and unchanged  *)
(*   SpecPush  push_to_github from the state main calls it in, over the    *)
(*             states HEAD, the index and the working tree may be in       *)
(*   SpecAgg   load_mapping and process_group applied to bounded inputs    *)
(* Amounts are exact multiples of 1/AmountScale; time is in ticks of three *)
(* hours.                                                                  *)
(***************************************************************************)
EXTENDS Integers, Sequences, FiniteSets, TLC

VARIABLES
    \* ---- the run of main ----
    pc,            \* position of the run
    now,           \* the wall clock, in ticks
    upstream,      \* the transactions the API holds (sequence, server order)
    window,        \* [lo, hi): the filter of the query built by the fetch
    query_url,     \* offset of the next page to request, or NoUrl
    rows,          \* rows accumulated by the fetch loop
    df_all,        \* the frame fetch_sales_mtd_range returned: [ok, rows]
    pageFailed,    \* a page request of this run has failed
    clocks,        \* the instants read by the fetch and by main
    dataJson,      \* content of data.json on disk
    generated,     \* what export_json wrote in this run: [ok, payload]
    exitStatus,    \* "running", "ok" (exit 0) or "failed" (uncaught exception)
    printed,       \* the lines the run has printed (sequences of text atoms)
    pushInvoked,   \* main has called push_to_github
    \* ---- push_to_github ----
    github_token,  \* os.getenv("GITHUB_TOKEN") as read at entry
    clean_url,     \* the remote address without scheme and credentials
    head,          \* data.json in the commit HEAD points at
    index,         \* data.json in the git index
    originMain,    \* data.json in origin/main
    otherPath,     \* another path of the working tree and its state
    new_data_content, \* data.json as read back before the checkout
    gitLog,        \* the git commands run, in order, each with its outcome
    publish,       \* outcome of push_to_github
    \* ---- load_mapping / process_group ----
    sheet,         \* mapping.xlsx
    mapping_df,    \* what load_mapping returned
    df,            \* the frame given to process_group
    grouped,       \* the merged, sorted frame inside process_group
    results,       \* the list process_group returned
    aggPc          \* position of the aggregation run

mainVars == <<pc, now, upstream, window, query_url, rows, df_all, pageFailed,
              clocks, dataJson, generated, exitStatus, printed, pushInvoked>>
gitVars == <<github_token, clean_url, head, index, originMain, otherPath,
             new_data_content, gitLog, publish>>
aggVars == <<sheet, df, grouped, results, aggPc>>
vars == <<mainVars, gitVars, aggVars, mapping_df>>

-----------------------------------------------------------------------------
(* Bounds of the model *)

\* Rows of a frame given to process_group.
MaxRecs == 2
\* Rows of the mapping sheet.
MaxMapRows == 2
\* PaymentAmount is held in units of 1/AmountScale.
AmountScale == 2

-----------------------------------------------------------------------------
(* Values *)

\* A missing cell of a data frame.
NaN == "NaN"
Unknown == "Unknown"

\* str.strip() on the store numbers "S1", " S1" and "S2" the sources deliver.
Strip(s) == IF s = " S1" THEN "S1" ELSE s

\* The store keys in the order groupby emits them (sorted).
StoreOrder == <<"S1", "S2">>

\* Transaction rows process_group is applied to.
AggRecs ==
    { [OperatingUnitNumber |-> "S1",  PaymentAmount |-> 1],
      [OperatingUnitNumber |-> " S1", PaymentAmount |-> 3],
      [OperatingUnitNumber |-> "S1",  PaymentAmount |-> -3],
      [OperatingUnitNumber |-> "S2",  PaymentAmount |-> -3],
      [OperatingUnitNumber |-> "S2",  PaymentAmount |-> 1] }

\* Rows of mapping.xlsx. A numeric cell is <<n>>, an empty one <<>>.
SheetRows ==
    { [store |-> " S1", name |-> "Downtown", city |-> "Metro", area |-> NaN,     target |-> <<10>>],
      [store |-> "S1",  name |-> "Uptown",   city |-> NaN,     area |-> "North", target |-> <<>>],
      [store |-> "S1",  name |-> NaN,        city |-> "Metro", area |-> "North", target |-> <<20>>],
      [store |-> "S2",  name |-> "Mall",     city |-> NaN,     area |-> NaN,     target |-> <<5>>] }

\* The columns load_mapping's header search can find in a sheet.
SheetColumns ==
    { {"store", "name", "target", "city", "area"},
      {"store", "name", "city"},
      {"store", "name"},
      {"name", "city", "area"} }

SeqsUpTo(S, n) == UNION { [1..k -> S] : k \in 0..n }

NoSheet == [exists |-> FALSE, cols |-> {}, rows |-> <<>>]
Sheets ==
    {NoSheet} \cup
    { [exists |-> TRUE, cols |-> c, rows |-> r] :
        c \in SheetColumns, r \in SeqsUpTo(SheetRows, MaxMapRows) }

-----------------------------------------------------------------------------
(* load_mapping *)

\* The value None of load_mapping, as a table that is not loaded.
NoMapping == [loaded |-> FALSE, cols |-> {}, rows |-> <<>>]

\* One row of the returned frame: the columns found, renamed; the store
\* number stringified and stripped.
MappingRow(r, cols) ==
    [store_id   |-> Strip(r.store),
     store_name |-> r.name,
     city       |-> IF "city" \in cols THEN r.city ELSE NaN,
     area       |-> IF "area" \in cols THEN r.area ELSE NaN,
     target     |-> IF "target" \in cols THEN r.target ELSE <<>>]

load_mapping(s) ==
    IF ~s.exists THEN NoMapping
    ELSE IF "store" \notin s.cols \/ "name" \notin s.cols THEN NoMapping
    ELSE [loaded |-> TRUE,
          cols   |-> s.cols \ {"store", "name"},
          rows   |-> [i \in 1..Len(s.rows) |-> MappingRow(s.rows[i], s.cols)]]

-----------------------------------------------------------------------------
(* process_group *)

\* pd.to_numeric(..., errors="coerce").fillna(0)
ToNumeric(x) == IF x \in Int THEN x ELSE 0

RECURSIVE SumSeq(_)
SumSeq(s) == IF s = <<>> THEN 0 ELSE Head(s) + SumSeq(Tail(s))

\* Series.fillna(d), and a fill that leaves the missing cell.
FillNaNone(v, d) == v
FillNa(v, d) == IF v = NaN THEN d ELSE v

\* int(x) of a value held in units of 1/AmountScale: toward zero
\* (IntOfFloor rounds down instead).
IntOfFloor(x) == x \div AmountScale
IntOf(x) == IF x >= 0 THEN x \div AmountScale ELSE -((-x) \div AmountScale)

\* df["store"] of a row.
StoreOf(r) == Strip(r.OperatingUnitNumber)

\* groupby("store").agg(sales = sum of PaymentAmount): one row per key.
GroupSales(d, k) ==
    SumSeq([i \in 1..Len(SelectSeq(d, LAMBDA r : StoreOf(r) = k)) |->
              ToNumeric(SelectSeq(d, LAMBDA r : StoreOf(r) = k)[i].PaymentAmount)])

GroupBy(d) ==
    LET keys == SelectSeq(StoreOrder, LAMBDA k : \E i \in 1..Len(d) : StoreOf(d[i]) = k)
    IN  [i \in 1..Len(keys) |-> [store |-> keys[i], sales |-> GroupSales(d, keys[i])]]

\* The rows a left merge yields for one group: one per reference row with
\* the key, or a single row of missing cells when there is none.
MergeRows(g, m) ==
    LET hit == SelectSeq(m.rows, LAMBDA r : r.store_id = g.store)
    IN  IF hit = <<>>
        THEN << [store |-> g.store, sales |-> g.sales, store_name |-> NaN,
                 city |-> NaN, area |-> NaN, target |-> <<>>] >>
        ELSE [i \in 1..Len(hit) |->
                [store |-> g.store, sales |-> g.sales, store_name |-> hit[i].store_name,
                 city |-> hit[i].city, area |-> hit[i].area, target |-> hit[i].target]]

RECURSIVE Merge(_, _)
Merge(gs, m) == IF gs = <<>> THEN <<>> ELSE MergeRows(Head(gs), m) \o Merge(Tail(gs), m)

\* The columns outlet, city, area and target of the frame before the sort.
\* A column the reference table lacks is read with r.get(col, default).
Enrich(g, m) ==
    IF m.loaded
    THEN [store  |-> g.store,
          sales  |-> g.sales,
          outlet |-> FillNa(g.store_name, g.store),
          city   |-> IF "city" \in m.cols THEN FillNa(g.city, Unknown) ELSE Unknown,
          area   |-> IF "area" \in m.cols THEN FillNa(g.area, Unknown) ELSE Unknown,
          target |-> IF "target" \in m.cols /\ g.target # <<>> THEN g.target[1] ELSE 0]
    ELSE [store |-> g.store, sales |-> g.sales, outlet |-> g.store,
          city |-> Unknown, area |-> Unknown, target |-> 0]

Merged(d, m) ==
    LET gs == IF m.loaded THEN Merge(GroupBy(d), m)
              ELSE [i \in 1..Len(GroupBy(d)) |->
                      [store |-> GroupBy(d)[i].store, sales |-> GroupBy(d)[i].sales,
                       store_name |-> NaN, city |-> NaN, area |-> NaN, target |-> <<>>]]
    IN  [i \in 1..Len(gs) |-> Enrich(gs[i], m)]

Orderings(n) == { p \in [1..n -> 1..n] : \A i, j \in 1..n : i # j => p[i] # p[j] }

\* sort_values("sales", ascending=False): the default sort is not stable, so
\* rows of equal sales come in any order.
SortValues(f) ==
    { s \in { [i \in 1..Len(f) |-> f[p[i]]] : p \in Orderings(Len(f)) } :
        \A i \in 1..Len(s) - 1 : s[i].sales >= s[i + 1].sales }

\* The dictionary built for one row.
Item(r, mtd) ==
    IF mtd
    THEN [outlet |-> r.outlet, sales |-> IntOf(r.sales), city |-> r.city,
          area |-> r.area, target |-> r.target]
    ELSE [outlet |-> r.outlet, sales |-> IntOf(r.sales), city |-> r.city, area |-> r.area]

Items(g, mtd) == [i \in 1..Len(g) |-> Item(g[i], mtd)]

\* The sorted frames process_group may iterate over for a frame.
SortedFrames(d, m) == IF d = <<>> THEN {<<>>} ELSE SortValues(Merged(d, m))

\* The lists process_group may return.
process_group(d, m, mtd) == { Items(g, mtd) : g \in SortedFrames(d, m) }

-----------------------------------------------------------------------------
(* SpecAgg: load_mapping, then process_group, on bounded inputs *)

MainIdle ==
    /\ pc = "idle" /\ now = 0 /\ upstream = <<>> /\ window = [lo |-> 0, hi |-> 0]
    /\ query_url = -1 /\ rows = <<>> /\ df_all = [ok |-> FALSE, rows |-> <<>>]
    /\ pageFailed = FALSE /\ clocks = <<>> /\ dataJson = <<>>
    /\ generated = [ok |-> FALSE, payload |-> <<>>]
    /\ exitStatus = "running" /\ printed = {} /\ pushInvoked = FALSE

GitIdle ==
    /\ github_token = "" /\ clean_url = <<>> /\ head = <<>> /\ index = <<>>
    /\ originMain = <<>> /\ otherPath = [path |-> <<>>, state |-> "clean"]
    /\ new_data_content = <<>> /\ gitLog = <<>> /\ publish = "none"

InitAgg ==
    /\ MainIdle /\ GitIdle
    /\ sheet \in Sheets
    /\ df \in SeqsUpTo(AggRecs, MaxRecs)
    /\ mapping_df = NoMapping
    /\ grouped = <<>> /\ results = <<>>
    /\ aggPc = "load"

LoadMapping ==
    /\ aggPc = "load"
    /\ mapping_df' = load_mapping(sheet)
    /\ aggPc' = "group"
    /\ UNCHANGED <<mainVars, gitVars, sheet, df, grouped, results>>

ProcessGroup ==
    /\ aggPc = "group"
    /\ \E g \in SortedFrames(df, mapping_df), mtd \in BOOLEAN :
          /\ grouped' = g
          /\ results' = Items(g, mtd)
    /\ aggPc' = "done"
    /\ UNCHANGED <<mainVars, gitVars, sheet, df, mapping_df>>

NextAgg == LoadMapping \/ ProcessGroup

SpecAgg == InitAgg /\ [][NextAgg]_vars

-----------------------------------------------------------------------------
(* Time, the API and the snapshot *)

\* Transactions the API may hold.
MaxTx == 2
\* Days of the month the run falls in.
DaysInMonth == 2
\* Rows of one page of the API's answer (odata.maxpagesize).
PageSize == 1

\* The clock ticks every three hours: a day is 8 ticks, and the display
\* offset of export_json (UTC+3) is one tick.
TicksPerDay == 8
UtcOffset == 1

\* Ticks that pass between two readings of the clock in one run.
Elapsed == {0, 1}

MonthTicks == DaysInMonth * TicksPerDay
\* replace(hour=0, minute=0, second=0, microsecond=0)
DayStart(t) == (t \div TicksPerDay) * TicksPerDay
\* replace(day=1, hour=0, minute=0, second=0, microsecond=0)
MonthStart(t) == (t \div MonthTicks) * MonthTicks

\* The run starts in the month that begins at tick 0, at the first or the
\* last tick of one of its days.
NowChoices ==
    UNION { {d * TicksPerDay, d * TicksPerDay + TicksPerDay - 1} : d \in 0..(DaysInMonth - 1) }

\* Transactions happen at the first or the last tick of a day, from the last
\* day of the month before on.
TxTimes ==
    UNION { {d * TicksPerDay, d * TicksPerDay + TicksPerDay - 1} : d \in (-1)..(DaysInMonth - 1) }

TxAt(t) ==
    [OperatingUnitNumber |-> IF t % TicksPerDay = 0 THEN "S1" ELSE "S2",
     PaymentAmount       |-> AmountScale * (t + TicksPerDay + 1) + 1,
     TransactionDate     |-> t]

ZeroTx == [OperatingUnitNumber |-> "S1", PaymentAmount |-> 0, TransactionDate |-> 0]

TxPool == { TxAt(t) : t \in TxTimes } \cup {ZeroTx}

TxKey(x) == 2 * x.TransactionDate + (IF x.PaymentAmount = 0 THEN 0 ELSE 1)

RECURSIVE InServerOrder(_)
InServerOrder(U) ==
    IF U = {} THEN <<>>
    ELSE LET first == CHOOSE x \in U : \A y \in U : TxKey(x) <= TxKey(y)
         IN  <<first>> \o InServerOrder(U \ {first})

Upstreams == { InServerOrder(U) : U \in { V \in SUBSET TxPool : Cardinality(V) <= MaxTx } }

\* The rows the query of the fetch selects:
\* PaymentAmount ne 0 and TransactionDate ge lo and TransactionDate lt hi.
Matching(u, w) ==
    SelectSeq(u, LAMBDA x : /\ x.PaymentAmount # 0
                            /\ x.TransactionDate >= w.lo
                            /\ x.TransactionDate < w.hi)

Min(a, b) == IF a <= b THEN a ELSE b

NoUrl == -1

\* The API's answer to the request for the page at an offset.
Response(outcome, u, w, offset) ==
    IF outcome = "ok"
    THEN [status   |-> 200,
          value    |-> SubSeq(Matching(u, w), offset + 1,
                              Min(offset + PageSize, Len(Matching(u, w)))),
          nextLink |-> IF offset + PageSize < Len(Matching(u, w))
                       THEN offset + PageSize ELSE NoUrl]
    ELSE [status |-> 500, value |-> <<>>, nextLink |-> NoUrl]

\* r.raise_for_status() raises (raise_for_status_never: the status is not
\* looked at).
raise_for_status_never(resp) == FALSE
raise_for_status(resp) == resp.status >= 400

\* The payload export_json writes at instant t.
Payload(t, today_list, yesterday_list, mtd_list, cities, areas) ==
    [date       |-> (t + UtcOffset) \div TicksPerDay,
     lastUpdate |-> (t + UtcOffset) % TicksPerDay,
     today      |-> today_list,
     yesterday  |-> yesterday_list,
     mtd        |-> mtd_list,
     metadata   |-> [cities |-> cities, areas |-> areas]]

\* data.json as earlier runs left it, and as another publisher may leave it.
PrevPayload == Payload(-TicksPerDay, <<>>, <<>>, <<>>, {}, {})
OtherPayload == Payload(-2 * TicksPerDay, <<>>, <<>>, <<>>, {}, {})

\* mapping.xlsx of a run: absent, or one sheet.
RunSheet ==
    [exists |-> TRUE, cols |-> {"store", "name", "target", "city", "area"},
     rows |-> << [store |-> " S1", name |-> "Downtown", city |-> "Metro",
                  area |-> NaN, target |-> <<10>>] >>]
RunSheets == {NoSheet, RunSheet}

NoTime == -1000

-----------------------------------------------------------------------------
(* main *)

Init ==
    /\ pc = "start"
    /\ now \in NowChoices
    /\ upstream \in Upstreams
    /\ window = [lo |-> 0, hi |-> 0]
    /\ query_url = NoUrl
    /\ rows = <<>>
    /\ df_all = [ok |-> FALSE, rows |-> <<>>]
    /\ pageFailed = FALSE
    /\ clocks = [fetch |-> NoTime, main |-> NoTime]
    /\ dataJson = PrevPayload
    /\ generated = [ok |-> FALSE, payload |-> PrevPayload]
    /\ exitStatus = "running"
    /\ printed = {}
    /\ pushInvoked = FALSE
    /\ github_token = ""
    /\ clean_url = <<>>
    /\ head = PrevPayload
    /\ index = PrevPayload
    /\ originMain = PrevPayload
    /\ otherPath = [path |-> <<"notes.txt">>, state |-> "clean"]
    /\ new_data_content = PrevPayload
    /\ gitLog = <<>>
    /\ publish = "none"
    /\ sheet \in RunSheets
    /\ mapping_df = NoMapping
    /\ df = <<>> /\ grouped = <<>> /\ results = <<>>
    /\ aggPc = "idle"

\* main up to the call of fetch_sales_mtd_range, with get_access_token.
GetAccessToken ==
    /\ pc = "start"
    /\ \E creds \in {"missing", "rejected", "ok"} :
         CASE creds = "missing" ->
                /\ printed' = printed \cup {<<"Fetching Sales Data...">>,
                                            <<"Missing Azure AD credentials">>}
                /\ pc' = "done"
                /\ exitStatus' = "ok"
           [] creds = "rejected" ->
                /\ printed' = printed \cup {<<"Fetching Sales Data...">>}
                /\ pc' = "done"
                /\ exitStatus' = "failed"
           [] creds = "ok" ->
                /\ printed' = printed \cup {<<"Fetching Sales Data...">>}
                /\ pc' = "fetch_begin"
                /\ exitStatus' = exitStatus
    /\ UNCHANGED <<now, upstream, window, query_url, rows, df_all, pageFailed, clocks,
                   dataJson, generated, pushInvoked, gitVars, aggVars, mapping_df>>

\* fetch_sales_mtd_range up to its loop: the window and the first URL.
FetchBegin ==
    /\ pc = "fetch_begin"
    /\ clocks' = [clocks EXCEPT !.fetch = now]
    /\ window' = [lo |-> MonthStart(now), hi |-> DayStart(now + TicksPerDay)]
    /\ printed' = printed \cup {<<"Fetching MTD data...">>}
    /\ rows' = <<>>
    /\ query_url' = 0
    /\ pc' = "fetch"
    /\ UNCHANGED <<now, upstream, df_all, pageFailed, dataJson, generated, exitStatus,
                   pushInvoked, gitVars, aggVars, mapping_df>>

\* One turn of the loop of fetch_sales_mtd_range. An exception leaves the
\* function and, uncaught, main: the run ends with a traceback.
FetchPage ==
    /\ pc = "fetch"
    /\ query_url # NoUrl
    /\ \E outcome \in {"ok", "http_error", "transport", "timeout"} :
         /\ pageFailed' = (pageFailed \/ outcome # "ok")
         /\ LET resp == Response(outcome, upstream, window, query_url)
                raised == outcome \in {"transport", "timeout"} \/ raise_for_status(resp)
            IN  IF raised
                THEN /\ pc' = "done"
                     /\ exitStatus' = "failed"
                     /\ UNCHANGED <<rows, query_url, df_all>>
                ELSE /\ rows' = rows \o resp.value
                     /\ query_url' = resp.nextLink
                     /\ exitStatus' = exitStatus
                     /\ IF resp.nextLink = NoUrl
                        THEN /\ df_all' = [ok |-> TRUE, rows |-> rows \o resp.value]
                             /\ pc' = "fetched"
                        ELSE /\ df_all' = df_all
                             /\ pc' = "fetch"
    /\ UNCHANGED <<now, upstream, window, clocks, dataJson, generated, printed,
                   pushInvoked, gitVars, aggVars, mapping_df>>

\* main when the frame is empty: an empty snapshot, and return.
MainEmpty ==
    /\ pc = "fetched"
    /\ df_all.rows = <<>>
    /\ \E e \in Elapsed :
         /\ now' = now + e
         /\ dataJson' = Payload(now + e, <<>>, <<>>, <<>>, {}, {})
         /\ generated' = [ok |-> TRUE, payload |-> Payload(now + e, <<>>, <<>>, <<>>, {}, {})]
    /\ printed' = printed \cup {<<"data.json updated (Today, Yesterday & MTD)">>}
    /\ pc' = "done"
    /\ exitStatus' = "ok"
    /\ UNCHANGED <<upstream, window, query_url, rows, df_all, pageFailed, clocks,
                   pushInvoked, gitVars, aggVars, mapping_df>>

\* df_all[TransactionDate >= today_start]
FilterToday(f, today_start) == SelectSeq(f, LAMBDA x : x.TransactionDate >= today_start)
\* df_all[(TransactionDate >= yesterday_start) & (TransactionDate < today_start)]
FilterYesterday(f, today_start) ==
    SelectSeq(f, LAMBDA x : /\ x.TransactionDate >= today_start - TicksPerDay
                            /\ x.TransactionDate < today_start)

\* mapping_df[col].dropna().unique()
ColumnValues(m, col) ==
    IF m.loaded /\ col \in m.cols
    THEN { m.rows[i][col] : i \in 1..Len(m.rows) } \ {NaN}
    ELSE {}

MappingWarnings(s) ==
    IF ~s.exists THEN {<<"Mapping file not found">>}
    ELSE IF "store" \notin s.cols \/ "name" \notin s.cols
         THEN {<<"Critical columns (store, name) missing in mapping.">>}
         ELSE {}

\* main when the frame has rows: the three views, the snapshot, and the call
\* of push_to_github.
MainAggregate ==
    /\ pc = "fetched"
    /\ df_all.rows # <<>>
    /\ \E e1 \in Elapsed, e2 \in Elapsed :
         LET now_utc == now + e1
             today_start == DayStart(now_utc)
             m == load_mapping(sheet)
         IN  /\ now' = now_utc + e2
             /\ clocks' = [clocks EXCEPT !.main = now_utc]
             /\ mapping_df' = m
             /\ \E today_data \in process_group(FilterToday(df_all.rows, today_start), m, FALSE),
                   yesterday_data \in process_group(FilterYesterday(df_all.rows, today_start), m, FALSE),
                   mtd_data \in process_group(df_all.rows, m, TRUE) :
                  LET p == Payload(now_utc + e2, today_data, yesterday_data, mtd_data,
                                   ColumnValues(m, "city"), ColumnValues(m, "area"))
                  IN  /\ dataJson' = p
                      /\ generated' = [ok |-> TRUE, payload |-> p]
    /\ printed' = printed \cup MappingWarnings(sheet)
                          \cup {<<"data.json updated (Today, Yesterday & MTD)">>}
    /\ pushInvoked' = TRUE
    /\ pc' = "push"
    /\ UNCHANGED <<upstream, window, query_url, rows, df_all, pageFailed, exitStatus,
                   gitVars, aggVars>>

-----------------------------------------------------------------------------
(* push_to_github *)

\* Text is a sequence of atoms; a URL is the sequence of its parts.
SecretToken == "ghp_secret"
SshUrl == <<"git", "@", "github.com:o/r.git">>
PlainUrl == <<"https://", "github.com/o/r.git">>
UserUrl == <<"https://", "user:password", "@", "github.com/o/r.git">>
TokenUrl == <<"https://", SecretToken, "@", "github.com/o/r.git">>

\* os.getenv("REPO_URL"): unset, or an address.
RepoUrlEnv == {<<>>, PlainUrl, UserUrl}
\* What git remote get-url origin answers, when it answers.
OriginUrls == {PlainUrl, TokenUrl, SshUrl}

HasAt(u) == \E i \in 1..Len(u) : u[i] = "@"
\* u.split("@")[-1]
AfterLastAt(u) ==
    IF ~HasAt(u) THEN u
    ELSE LET k == CHOOSE i \in 1..Len(u) :
                    /\ u[i] = "@"
                    /\ \A j \in (i + 1)..Len(u) : u[j] # "@"
         IN  SubSeq(u, k + 1, Len(u))
\* u.replace("https://", "").replace("http://", "")
WithoutScheme(u) == SelectSeq(u, LAMBDA a : a \notin {"https://", "http://"})

CleanUrl(repo_url) == AfterLastAt(WithoutScheme(repo_url))
\* f"https://{github_token}@{clean_url}"
RemoteWithToken(token, clean) == <<"https://", token, "@">> \o clean

\* str() of the CalledProcessError of a command.
CalledProcessError(argv) == <<"Command">> \o argv \o <<"returned non-zero exit status 1.">>

Ran(cmd, ok) == [cmd |-> cmd, ok |-> ok]

\* The except clause: the failure is printed and push_to_github returns.
Except(message, ran, printedBefore) ==
    /\ printed' = printed \cup printedBefore \cup {<<"Git push failed:">> \o message}
    /\ gitLog' = gitLog \o ran
    /\ publish' = "Failed"
    /\ pc' = "done"
    /\ exitStatus' = "ok"

\* A return out of push_to_github without an exception.
Return(outcome, line, ran) ==
    /\ printed' = printed \cup {line}
    /\ gitLog' = gitLog \o ran
    /\ publish' = outcome
    /\ pc' = "done"
    /\ exitStatus' = "ok"

\* The token and the repository checks at entry.
PushEntry ==
    /\ pc = "push"
    /\ \E token \in {"", SecretToken}, isRepo \in BOOLEAN :
         /\ github_token' = token
         /\ IF token = ""
            THEN Return("Skipped", <<"GITHUB_TOKEN not found. Skipping git push.">>, <<>>)
            ELSE IF ~isRepo
            THEN Return("Skipped", <<"Not a git repository. Skipping git push.">>, <<>>)
            ELSE /\ pc' = "git_config"
                 /\ UNCHANGED <<printed, gitLog, publish, exitStatus>>
    /\ UNCHANGED <<now, upstream, window, query_url, rows, df_all, pageFailed, clocks,
                   dataJson, generated, pushInvoked, clean_url, head, index, originMain,
                   otherPath, new_data_content, aggVars, mapping_df>>

ConfigEmail == <<"git", "config", "user.email", "render-bot@example.com">>
ConfigName == <<"git", "config", "user.name", "Render Bot">>

\* git config user.email, git config user.name
GitConfig ==
    /\ pc = "git_config"
    /\ \E outcome \in {"email_fails", "name_fails", "ok"} :
         CASE outcome = "email_fails" ->
                Except(CalledProcessError(ConfigEmail), <<Ran("config", FALSE)>>, {})
           [] outcome = "name_fails" ->
                Except(CalledProcessError(ConfigName),
                       <<Ran("config", TRUE), Ran("config", FALSE)>>, {})
           [] outcome = "ok" ->
                /\ gitLog' = gitLog \o <<Ran("config", TRUE), Ran("config", TRUE)>>
                /\ pc' = "detect_url"
                /\ UNCHANGED <<printed, publish, exitStatus>>
    /\ UNCHANGED <<now, upstream, window, query_url, rows, df_all, pageFailed, clocks,
                   dataJson, generated, pushInvoked, github_token, clean_url, head, index,
                   originMain, otherPath, new_data_content, aggVars, mapping_df>>

\* The address: REPO_URL, or else the origin of the repository; clean_url.
DetectUrl ==
    /\ pc = "detect_url"
    /\ \E env \in RepoUrlEnv :
         IF env # <<>>
         THEN /\ clean_url' = CleanUrl(env)
              /\ pc' = "remote"
              /\ UNCHANGED <<printed, gitLog, publish, exitStatus>>
         ELSE \E answered \in BOOLEAN, origin_url \in OriginUrls :
                IF ~answered
                THEN /\ Return("Aborted",
                               <<"Could not detect origin URL. Please set REPO_URL env var.">>,
                               <<Ran("remote get-url", FALSE)>>)
                     /\ clean_url' = clean_url
                ELSE /\ clean_url' = CleanUrl(AfterLastAt(origin_url))
                     /\ gitLog' = gitLog \o <<Ran("remote get-url", TRUE)>>
                     /\ pc' = "remote"
                     /\ UNCHANGED <<printed, publish, exitStatus>>
    /\ UNCHANGED <<now, upstream, window, query_url, rows, df_all, pageFailed, clocks,
                   dataJson, generated, pushInvoked, github_token, head, index,
                   originMain, otherPath, new_data_content, aggVars, mapping_df>>

\* git remote, then git remote set-url or git remote add with the token in
\* the address.
ConfigureRemote ==
    /\ pc = "remote"
    /\ \E hasOrigin \in BOOLEAN, ok \in BOOLEAN :
         LET sub == IF hasOrigin THEN "set-url" ELSE "add"
             argv == <<"git", "remote", sub, "origin">>
                       \o RemoteWithToken(github_token, clean_url)
         IN  IF ~ok
             THEN Except(CalledProcessError(argv),
                         <<Ran("remote", TRUE), Ran("remote " \o sub, FALSE)>>, {})
             ELSE /\ gitLog' = gitLog \o <<Ran("remote", TRUE), Ran("remote " \o sub, TRUE)>>
                  /\ printed' = printed \cup {<<"Syncing with remote (Robust Mode)...">>}
                  /\ pc' = "git_fetch"
                  /\ UNCHANGED <<publish, exitStatus>>
    /\ UNCHANGED <<now, upstream, window, query_url, rows, df_all, pageFailed, clocks,
                   dataJson, generated, pushInvoked, github_token, clean_url, head, index,
                   originMain, otherPath, new_data_content, aggVars, mapping_df>>

\* git fetch origin main: origin/main becomes what the remote holds, which
\* may be the content this run generated.
GitFetch ==
    /\ pc = "git_fetch"
    /\ \E ok \in BOOLEAN, remote \in {PrevPayload, OtherPayload, dataJson} :
         IF ~ok
         THEN /\ Except(CalledProcessError(<<"git", "fetch", "origin", "main">>),
                        <<Ran("fetch", FALSE)>>, {})
              /\ originMain' = originMain
         ELSE /\ originMain' = remote
              /\ gitLog' = gitLog \o <<Ran("fetch", TRUE)>>
              /\ pc' = "checkout"
              /\ UNCHANGED <<printed, publish, exitStatus>>
    /\ UNCHANGED <<now, upstream, window, query_url, rows, df_all, pageFailed, clocks,
                   dataJson, generated, pushInvoked, github_token, clean_url, head, index,
                   otherPath, new_data_content, aggVars, mapping_df>>

\* git checkout -B main origin/main can switch when, for data.json, the two
\* commits agree, or the index already holds the new version, or the file is
\* unmodified; otherwise it refuses and touches nothing.
CanSwitch == head = originMain \/ index = originMain \/ (index = head /\ dataJson = index)

\* data.json is read into memory, then git checkout -B main origin/main.
Checkout ==
    /\ pc = "checkout"
    /\ new_data_content' = dataJson
    /\ \E ok \in BOOLEAN :
         /\ ok => CanSwitch
         /\ IF ~ok
            THEN /\ Except(CalledProcessError(<<"git", "checkout", "-B", "main", "origin/main">>),
                           <<Ran("checkout", FALSE)>>, {})
                 /\ UNCHANGED <<head, index, dataJson>>
            ELSE /\ head' = originMain
                 /\ IF head = originMain \/ index = originMain
                    THEN UNCHANGED <<index, dataJson>>
                    ELSE index' = originMain /\ dataJson' = originMain
                 /\ gitLog' = gitLog \o <<Ran("checkout", TRUE)>>
                 /\ pc' = "add"
                 /\ UNCHANGED <<printed, publish, exitStatus>>
    /\ UNCHANGED <<now, upstream, window, query_url, rows, df_all, pageFailed, clocks,
                   generated, pushInvoked, github_token, clean_url, originMain,
                   otherPath, aggVars, mapping_df>>

\* What step 4 leaves in data.json (WriteBackSkipped: the file is left as
\* the checkout put it).
WriteBackSkipped(content, onDisk) == onDisk
WriteBack(content, onDisk) == content

\* data.json is written back, then git add data.json.
WriteBackAndAdd ==
    /\ pc = "add"
    /\ dataJson' = WriteBack(new_data_content, dataJson)
    /\ \E ok \in BOOLEAN :
         IF ~ok
         THEN /\ Except(CalledProcessError(<<"git", "add", "data.json">>),
                        <<Ran("add", FALSE)>>, {})
              /\ index' = index
         ELSE /\ index' = dataJson'
              /\ gitLog' = gitLog \o <<Ran("add", TRUE)>>
              /\ pc' = "status"
              /\ UNCHANGED <<printed, publish, exitStatus>>
    /\ UNCHANGED <<now, upstream, window, query_url, rows, df_all, pageFailed, clocks,
                   generated, pushInvoked, github_token, clean_url, head, originMain,
                   otherPath, new_data_content, aggVars, mapping_df>>

\* The paths git status --porcelain lists.
StatusLines ==
    (IF index # head THEN {<<"data.json">>} ELSE {})
        \cup (IF otherPath.state # "clean" THEN {otherPath.path} ELSE {})

\* "data.json" in status.stdout
MentionsDataJson(lines) == \E l \in lines : \E i \in 1..Len(l) : l[i] = "data.json"

\* git status --porcelain (its exit status is not checked) and the test on
\* its output.
StatusCheck ==
    /\ pc = "status"
    /\ \E ok \in BOOLEAN :
         LET stdout == IF ok THEN StatusLines ELSE {}
         IN  IF ~MentionsDataJson(stdout)
             THEN Return("Skipped", <<"No changes in data.json to push.">>,
                         <<Ran("status", ok)>>)
             ELSE /\ gitLog' = gitLog \o <<Ran("status", ok)>>
                  /\ pc' = "commit"
                  /\ UNCHANGED <<printed, publish, exitStatus>>
    /\ UNCHANGED <<now, upstream, window, query_url, rows, df_all, pageFailed, clocks,
                   dataJson, generated, pushInvoked, github_token, clean_url, head, index,
                   originMain, otherPath, new_data_content, aggVars, mapping_df>>

\* git commit: it commits what is staged, and fails when nothing is.
Commit ==
    /\ pc = "commit"
    /\ \E ok \in BOOLEAN :
         /\ ok => (index # head \/ otherPath.state = "staged")
         /\ IF ~ok
            THEN /\ Except(CalledProcessError(<<"git", "commit", "-m",
                                                "Auto-update data.json [skip ci]">>),
                           <<Ran("commit", FALSE)>>, {})
                 /\ UNCHANGED <<head, otherPath>>
            ELSE /\ head' = index
                 /\ otherPath' = IF otherPath.state = "staged"
                                 THEN [otherPath EXCEPT !.state = "clean"] ELSE otherPath
                 /\ gitLog' = gitLog \o <<Ran("commit", TRUE)>>
                 /\ pc' = "git_push"
                 /\ UNCHANGED <<printed, publish, exitStatus>>
    /\ UNCHANGED <<now, upstream, window, query_url, rows, df_all, pageFailed, clocks,
                   dataJson, generated, pushInvoked, github_token, clean_url, index,
                   originMain, new_data_content, aggVars, mapping_df>>

\* git push origin main
GitPush ==
    /\ pc = "git_push"
    /\ \E ok \in BOOLEAN :
         IF ~ok
         THEN /\ Except(CalledProcessError(<<"git", "push", "origin", "main">>),
                        <<Ran("push", FALSE)>>, {<<"Pushing to">> \o clean_url})
              /\ originMain' = originMain
         ELSE /\ originMain' = head
              /\ printed' = printed \cup {<<"Pushing to">> \o clean_url,
                                          <<"Successfully pushed data.json to GitHub!">>}
              /\ gitLog' = gitLog \o <<Ran("push", TRUE)>>
              /\ publish' = "Published"
              /\ pc' = "done"
              /\ exitStatus' = "ok"
    /\ UNCHANGED <<now, upstream, window, query_url, rows, df_all, pageFailed, clocks,
                   dataJson, generated, pushInvoked, github_token, clean_url, head, index,
                   otherPath, new_data_content, aggVars, mapping_df>>

PushNext ==
    \/ PushEntry \/ GitConfig \/ DetectUrl \/ ConfigureRemote \/ GitFetch
    \/ Checkout \/ WriteBackAndAdd \/ StatusCheck \/ Commit \/ GitPush

Next ==
    \/ GetAccessToken \/ FetchBegin \/ FetchPage \/ MainEmpty \/ MainAggregate
    \/ PushEntry \/ GitConfig \/ DetectUrl \/ ConfigureRemote \/ GitFetch
    \/ Checkout \/ WriteBackAndAdd \/ StatusCheck \/ Commit \/ GitPush

Spec == Init /\ [][Next]_vars

-----------------------------------------------------------------------------
(* SpecPush: push_to_github from the state main calls it in, over the      *)
(* states the repository may be in                                         *)

\* The run on the first tick of the month, one transaction, no mapping file.
FreshRows == <<TxAt(0)>>
FreshPayload ==
    Payload(0, Items(Merged(FreshRows, NoMapping), FALSE), <<>>,
            Items(Merged(FreshRows, NoMapping), TRUE), {}, {})

\* data.json in HEAD and in the index: an earlier snapshot, another
\* publisher's, or one equal to the snapshot of this run.
Contents == {PrevPayload, OtherPayload, FreshPayload}

\* Another path of the working tree, as git status sees it.
OtherPaths ==
    { [path |-> <<"notes.txt">>, state |-> "clean"],
      [path |-> <<"notes.txt">>, state |-> "untracked"],
      [path |-> <<"archive/", "data.json">>, state |-> "untracked"],
      [path |-> <<"archive/", "data.json">>, state |-> "staged"] }

InitPush ==
    /\ pc = "push"
    /\ now = 0
    /\ upstream = FreshRows
    /\ window = [lo |-> 0, hi |-> TicksPerDay]
    /\ query_url = NoUrl
    /\ rows = FreshRows
    /\ df_all = [ok |-> TRUE, rows |-> FreshRows]
    /\ pageFailed = FALSE
    /\ clocks = [fetch |-> 0, main |-> 0]
    /\ dataJson = FreshPayload
    /\ generated = [ok |-> TRUE, payload |-> FreshPayload]
    /\ exitStatus = "running"
    /\ printed = {<<"Fetching Sales Data...">>, <<"Fetching MTD data...">>,
                  <<"Mapping file not found">>,
                  <<"data.json updated (Today, Yesterday & MTD)">>}
    /\ pushInvoked = TRUE
    /\ github_token = ""
    /\ clean_url = <<>>
    /\ head \in Contents
    /\ index \in Contents
    /\ originMain = PrevPayload
    /\ otherPath \in OtherPaths
    /\ new_data_content = PrevPayload
    /\ gitLog = <<>>
    /\ publish = "none"
    /\ sheet = NoSheet
    /\ mapping_df = NoMapping
    /\ df = <<>> /\ grouped = <<>> /\ results = <<>>
    /\ aggPc = "idle"

SpecPush == InitPush /\ [][PushNext]_vars

-----------------------------------------------------------------------------
(* Properties of the run, checked under Spec *)

\* C1: when the request for any page fails, fetch_sales_mtd_range ends in
\* failure and returns no record set: the rows of the earlier pages reach
\* neither the caller nor a snapshot.
C1_FetchFailsFast ==
    pageFailed =>
        /\ ~df_all.ok
        /\ ~generated.ok
        /\ pc = "done"
        /\ exitStatus = "failed"

\* A later page failed after an earlier one had delivered rows.
C1_Witness ==
    /\ pageFailed
    /\ rows # <<>>
    /\ pc = "done"

\* C2: when the fetch fails, the run still writes data.json as an empty
\* snapshot (today, yesterday and mtd empty) and ends with a failed status.
C2_EmptySnapshotOnFetchFailure ==
    (pc = "done" /\ pageFailed) =>
        /\ generated.ok
        /\ dataJson = generated.payload
        /\ dataJson.today = <<>> /\ dataJson.yesterday = <<>> /\ dataJson.mtd = <<>>
        /\ exitStatus = "failed"

Within(u, lo, hi) ==
    SelectSeq(u, LAMBDA x : /\ x.PaymentAmount # 0
                            /\ x.TransactionDate >= lo
                            /\ x.TransactionDate < hi)

\* C6: the three views of a run cover exactly their windows derived from the
\* run instant: today [start_of_day, start_of_next_day), yesterday the 24
\* hours before start_of_day, mtd [start_of_month, start_of_next_day).
C6_ViewsCoverWindows ==
    (/\ generated.ok
     /\ clocks.main # NoTime => DayStart(clocks.main) = DayStart(clocks.fetch)) =>
        LET t == clocks.fetch
            sod == DayStart(t)
            m == load_mapping(sheet)
            p == generated.payload
        IN  /\ p.today \in process_group(Within(upstream, sod, sod + TicksPerDay), m, FALSE)
            /\ p.yesterday \in process_group(Within(upstream, sod - TicksPerDay, sod), m, FALSE)
            /\ p.mtd \in process_group(Within(upstream, MonthStart(t), sod + TicksPerDay), m, TRUE)

\* C10: in every run that writes a snapshot to data.json, the empty one
\* included, push_to_github is invoked after the write.
C10_PushAfterEveryWrite ==
    generated.ok => pushInvoked

-----------------------------------------------------------------------------
(* Properties of push_to_github, checked under SpecPush *)

RanCmd(cmd) == \E i \in 1..Len(gitLog) : gitLog[i].cmd = cmd
Pushed == \E i \in 1..Len(gitLog) : gitLog[i].cmd = "push" /\ gitLog[i].ok

\* C3: after the sync, when data.json is identical to the remote's version,
\* the publish ends as Skipped and neither git commit nor git push is
\* executed, whatever else is in the working tree.
C3_SkippedWhenIdentical ==
    (RanCmd("status") /\ ~Pushed /\ dataJson = originMain) =>
        /\ ~RanCmd("commit") /\ ~RanCmd("push")
        /\ pc = "done" => publish = "Skipped"

\* C4: on every path, no line the run prints holds the value of GITHUB_TOKEN
\* (and so none holds the remote URL that carries it).
C4_TokenNeverPrinted ==
    \A l \in printed : \A i \in 1..Len(l) : l[i] # SecretToken

\* C7: when git fetch, checkout, add, commit or push fails, no further git
\* command is run, the publish ends as Failed without failing the run, and
\* data.json still holds the snapshot this run generated.
C7_FailureConfined ==
    \A i \in 1..Len(gitLog) :
        (gitLog[i].cmd \in {"fetch", "checkout", "add", "commit", "push"} /\ ~gitLog[i].ok) =>
            /\ i = Len(gitLog)
            /\ pc = "done"
            /\ publish = "Failed"
            /\ exitStatus = "ok"
            /\ generated.ok
            /\ dataJson = generated.payload

\* git add failed after a checkout that put the remote's version, which
\* differs from this run's snapshot, in place of the file.
C7_Witness ==
    /\ Len(gitLog) >= 2
    /\ gitLog[Len(gitLog)] = Ran("add", FALSE)
    /\ gitLog[Len(gitLog) - 1] = Ran("checkout", TRUE)
    /\ index = originMain
    /\ originMain # generated.payload
    /\ dataJson = generated.payload

-----------------------------------------------------------------------------
(* Properties of process_group, checked under SpecAgg *)

\* The stores that occur in the frame given to process_group.
StoresIn(d) == { StoreOf(d[i]) : i \in 1..Len(d) }

\* The amounts of a store's records, added up record by record.
RECURSIVE TotalOf(_, _)
TotalOf(d, k) ==
    IF d = <<>> THEN 0
    ELSE (IF Strip(Head(d).OperatingUnitNumber) = k THEN Head(d).PaymentAmount ELSE 0)
         + TotalOf(Tail(d), k)

\* q is x / AmountScale with the fraction cut off toward zero.
IsTruncation(q, x) ==
    /\ x >= 0 => /\ q >= 0
                 /\ q * AmountScale <= x
                 /\ x < (q + 1) * AmountScale
    /\ x < 0  => /\ q <= 0
                 /\ q * AmountScale >= x
                 /\ x > (q - 1) * AmountScale

RefRowsOf(k) == { j \in 1..Len(mapping_df.rows) : mapping_df.rows[j].store_id = k }

\* C5: every store of the window's records yields exactly one row, so the
\* rows have pairwise distinct stores, whatever the reference table holds.
C5_OneRowPerStore ==
    aggPc = "done" =>
        /\ Len(results) = Cardinality(StoresIn(df))
        /\ \A i, j \in 1..Len(grouped) : i # j => grouped[i].store # grouped[j].store

\* C8, as stated: an unmatched store (or no table, or no city/area column)
\* gives outlet = store_id and city = area = "Unknown"; a matched store gives
\* outlet = the reference display name, and city/area the reference value
\* when present, else "Unknown".
MetaOf(col, v) == IF col \in mapping_df.cols /\ v # NaN THEN v ELSE Unknown

C8_EnrichmentAsStated ==
    aggPc = "done" =>
        \A i \in 1..Len(results) :
            LET k == grouped[i].store
                r == results[i]
            IN  IF ~mapping_df.loaded \/ RefRowsOf(k) = {}
                THEN r.outlet = k /\ r.city = Unknown /\ r.area = Unknown
                ELSE \E j \in RefRowsOf(k) :
                        /\ r.outlet = mapping_df.rows[j].store_name
                        /\ r.city = MetaOf("city", mapping_df.rows[j].city)
                        /\ r.area = MetaOf("area", mapping_df.rows[j].area)

\* C8, amended: as above, but for a matched store the outlet is the
\* reference display name when that cell is present, else the raw store_id.
C8_Enrichment ==
    aggPc = "done" =>
        \A i \in 1..Len(results) :
            LET k == grouped[i].store
                r == results[i]
            IN  IF ~mapping_df.loaded \/ RefRowsOf(k) = {}
                THEN r.outlet = k /\ r.city = Unknown /\ r.area = Unknown
                ELSE \E j \in RefRowsOf(k) :
                        /\ r.outlet = IF mapping_df.rows[j].store_name # NaN
                                      THEN mapping_df.rows[j].store_name ELSE k
                        /\ r.city = MetaOf("city", mapping_df.rows[j].city)
                        /\ r.area = MetaOf("area", mapping_df.rows[j].area)

\* A run with an unmatched store next to a matched one whose reference row
\* has a city but no area.
C8_Witness ==
    /\ aggPc = "done"
    /\ mapping_df.loaded
    /\ \E i, j \in 1..Len(results) :
          /\ RefRowsOf(grouped[i].store) = {}
          /\ results[i].outlet = grouped[i].store
          /\ results[j].outlet = "Downtown"
          /\ results[j].city = "Metro"
          /\ results[j].area = Unknown

\* C9: each row's sales is the sum of the amounts of the store's records
\* with the fraction truncated toward zero, and the rows come in
\* non-increasing order of sales.
C9_SalesTruncatedSorted ==
    aggPc = "done" =>
        /\ \A i \in 1..Len(results) :
              IsTruncation(results[i].sales, TotalOf(df, grouped[i].store))
        /\ \A i \in 1..Len(results) - 1 : results[i].sales >= results[i + 1].sales

\* Two rows, one of them with a negative total that has a fraction.
C9_Witness ==
    /\ aggPc = "done"
    /\ Len(results) >= 2
    /\ \E i \in 1..Len(results) :
          /\ TotalOf(df, grouped[i].store) < 0
          /\ TotalOf(df, grouped[i].store) % AmountScale # 0
          /\ results[i].sales * AmountScale > TotalOf(df, grouped[i].store)

====
